---- MODULE Spec2Model ----
(***************************************************************************)
(* Model of the audio-service repository: the POST /extract-audio-urls     *)
(* handler of main.py (listing, extension filter, URL signing, duration    *)
(* probe) and its near-duplicate in app.py (listing, filter, signing).     *)
(*                                                                         *)
(* Object names are sequences of one-character strings, so that lower(),   *)
(* endswith(), the prefix test and basename() are computed, not assumed.   *)
(* Time is counted in seconds since the arrival of the request being       *)
(* served: utcnow() is arrival + now.                                      *)
(***************************************************************************)
EXTENDS Integers, Sequences, FiniteSets, TLC

VARIABLES
    env,        \* process environment: names of the credentials that are set
    storage,    \* the container/bucket: objects in backend enumeration order
    pc,         \* position of the request being served
    entry,      \* module whose app serves the request: "main" or "app"
    req,        \* the request body (ExtractRequest)
    now,        \* seconds elapsed since the request arrived
    expiry,     \* local `expiry` (main.py:38, app.py:33)
    remaining,  \* backend side of the listing: objects not yet sent in a page
    page,       \* objects of the current page not yet iterated
    cur,        \* the object the loop body is working on
    url,        \* local `url` of the loop body
    duration,   \* local `duration` of the loop body
    tmp_dirs,   \* directories made by mkdtemp for this request that still exist
    results,    \* local `results`
    status,     \* HTTP status of the response (0 while none was sent)
    detail,     \* error detail of the response
    response,   \* response body: <<>> for none, <<list>> for a list of records
    calls,      \* backend and probe calls made for this request, in order
    prev        \* history: <<outcome>> of the request served just before this
                \* one when it had the same body, <<>> otherwise

vars == <<env, storage, pc, entry, req, now, expiry, remaining, page, cur, url,
          duration, tmp_dirs, results, status, detail, response, calls, prev>>

----------------------------------------------------------------------------
(* Bounds of the model *)

\* objects per listing page (the providers' page size, scaled down)
PageSize == 2
\* seconds one download takes
DownloadSecs == 2

----------------------------------------------------------------------------
(* Pure helpers: str.lower, str.endswith, str.startswith, os.path.basename *)

Upper == <<"A", "M", "P", "V", "W">>
Lower == <<"a", "m", "p", "v", "w">>

LowerChar(c) ==
    IF \E i \in 1..Len(Upper) : Upper[i] = c
    THEN Lower[CHOOSE i \in 1..Len(Upper) : Upper[i] = c]
    ELSE c

ToLower(s) == [i \in 1..Len(s) |-> LowerChar(s[i])]

EndsWith(s, suffix) ==
    /\ Len(suffix) <= Len(s)
    /\ SubSeq(s, Len(s) - Len(suffix) + 1, Len(s)) = suffix

StartsWith(s, p) ==
    /\ Len(p) <= Len(s)
    /\ SubSeq(s, 1, Len(p)) = p

RECURSIVE Basename(_)
Basename(s) ==
    IF \E i \in 1..Len(s) : s[i] = "/"
    THEN Basename(Tail(s))
    ELSE s

AudioExtensions ==
    { <<".", "w", "a", "v">>, <<".", "m", "p", "3">>, <<".", "m", "4", "a">> }

\* variant of IsAudio that compares the name as written
IsAudioNoLower(name) == \E e \in AudioExtensions : EndsWith(name, e)
\* main.py: name.lower().endswith((".wav", ".mp3", ".m4a"))
IsAudio(name) == \E e \in AudioExtensions : EndsWith(ToLower(name), e)

\* app.py: the same test
AppIsAudio(name) == \E e \in AudioExtensions : EndsWith(ToLower(name), e)

----------------------------------------------------------------------------
(* Inputs: environments, storages and requests the service can meet *)

CredentialNames ==
    { "AZURE_STORAGE_CONNECTION_STRING", "AZURE_ACCOUNT_KEY",
      "AWS_ACCESS_KEY_ID", "AWS_SECRET_ACCESS_KEY" }

\* Object names of the container/bucket, in the providers' (binary) listing order
KeyNames ==
    << <<"d", ".", "M", "4", "a">>,
       <<"s", "/", "a", ".", "m", "p", "3">>,
       <<"s", "/", "b", ".", "w", "a", "v", ".", "t", "x", "t">>,
       <<"s", "/", "c", ".", "W", "A", "V">> >>

\* Object bytes: audio that decodes to `secs` seconds, or bytes that do not decode
Contents == { [ok |-> TRUE, secs |-> 7], [ok |-> FALSE, secs |-> 0] }

RECURSIVE ObjectsFrom(_, _, _)
ObjectsFrom(i, present, content) ==
    IF i > Len(KeyNames) THEN <<>>
    ELSE (IF i \in present
          THEN <<[key |-> KeyNames[i], content |-> content[i]]>>
          ELSE <<>>) \o ObjectsFrom(i + 1, present, content)

Storages ==
    { ObjectsFrom(1, present, content) :
        present \in SUBSET (1..Len(KeyNames)),
        content \in [1..Len(KeyNames) -> Contents] }

Prefixes == { <<>>, <<"s", "/">> }

Requests ==
    [ source_type : {"azure", "s3", "gcs"},
      container_or_bucket : {"c"},
      prefix : Prefixes,
      expiry_days : {1, 2} ]

NoRequest ==
    [source_type |-> "", container_or_bucket |-> "", prefix |-> <<>>,
     expiry_days |-> 0]
NoObject == [key |-> <<>>, content |-> [ok |-> FALSE, secs |-> 0]]
NoUrl == [key |-> <<>>, param |-> 0, signed_at |-> 0]

----------------------------------------------------------------------------
(* The storage providers, at their interface *)

\* list_blobs(name_starts_with=prefix) / list_objects_v2(Prefix=prefix)
Listing(prefix) == SelectSeq(storage, LAMBDA o : StartsWith(o.key, prefix))

FirstPage(objs) == SubSeq(objs, 1, IF Len(objs) < PageSize THEN Len(objs) ELSE PageSize)
AfterFirstPage(objs) == SubSeq(objs, PageSize + 1, Len(objs))

\* The instant (seconds after the request arrived) at which a signed URL stops
\* working: a SAS token carries the absolute expiry it was given, a presigned
\* S3 URL is valid for ExpiresIn seconds from the moment it was signed.
ExpiryInstant(source_type, u) ==
    IF source_type = "azure" THEN u.param ELSE u.signed_at + u.param

----------------------------------------------------------------------------
(* Responses *)

Call(op, key, ok) == [op |-> op, key |-> key, ok |-> ok]

\* raise HTTPException(code, msg)
Raise(code, msg) ==
    /\ pc' = "done"
    /\ status' = code
    /\ detail' = msg
    /\ response' = <<>>

\* variant of Abort that answers with the records accumulated so far
AbortPartial ==
    /\ pc' = "done"
    /\ status' = 200
    /\ detail' = ""
    /\ response' = <<results>>
\* an exception of a provider call leaves the handler: the route answers 500
Abort ==
    /\ pc' = "done"
    /\ status' = 500
    /\ detail' = "Internal Server Error"
    /\ response' = <<>>

Outcome ==
    [entry |-> entry, req |-> req, status |-> status, detail |-> detail,
     response |-> response]

----------------------------------------------------------------------------
(* main.py *)

Init ==
    /\ env \in SUBSET CredentialNames
    /\ storage \in Storages
    /\ pc = "idle"
    /\ entry = "main"
    /\ req = NoRequest
    /\ now = 0
    /\ expiry = 0
    /\ remaining = <<>>
    /\ page = <<>>
    /\ cur = NoObject
    /\ url = NoUrl
    /\ duration = <<>>
    /\ tmp_dirs = <<>>
    /\ results = <<>>
    /\ status = 0
    /\ detail = ""
    /\ response = <<>>
    /\ calls = <<>>
    /\ prev = <<>>

\* A request arrives at the route of module `e`; the body is validated against
\* ExtractRequest (source_type: Literal["azure", "s3"]) before the handler runs.
Arrive(e) ==
    /\ pc \in {"idle", "done"}
    /\ entry' = e
    /\ \E r \in Requests :
         /\ req' = r
         /\ prev' = IF pc = "done" /\ r = req THEN <<Outcome>> ELSE <<>>
         /\ IF r.source_type \in {"azure", "s3"}
            THEN /\ pc' = "handler"
                 /\ status' = 0
                 /\ detail' = ""
            ELSE /\ pc' = "done"
                 /\ status' = 422
                 /\ detail' = "literal_error"
    /\ response' = <<>>
    /\ now' = 0
    /\ expiry' = 0
    /\ remaining' = <<>>
    /\ page' = <<>>
    /\ cur' = NoObject
    /\ url' = NoUrl
    /\ duration' = <<>>
    /\ tmp_dirs' = <<>>
    /\ results' = <<>>
    /\ calls' = <<>>
    /\ UNCHANGED <<env, storage>>

Receive == Arrive("main")

\* variant of CredentialsMissing that needs both credentials to be missing
CredentialsMissingAnd(source_type) ==
    IF source_type = "azure"
    THEN "AZURE_STORAGE_CONNECTION_STRING" \notin env /\ "AZURE_ACCOUNT_KEY" \notin env
    ELSE "AWS_ACCESS_KEY_ID" \notin env /\ "AWS_SECRET_ACCESS_KEY" \notin env
\* if not conn_str or not account_key / if not aws_access or not aws_secret
CredentialsMissing(source_type) ==
    IF source_type = "azure"
    THEN "AZURE_STORAGE_CONNECTION_STRING" \notin env \/ "AZURE_ACCOUNT_KEY" \notin env
    ELSE "AWS_ACCESS_KEY_ID" \notin env \/ "AWS_SECRET_ACCESS_KEY" \notin env

\* results = [], expiry = utcnow() + timedelta(days), the branch on source_type,
\* the credential check and the construction of the client and the lazy listing
SetupBody(missing, azureMsg, awsMsg) ==
    /\ results' = <<>>
    /\ expiry' = now + req.expiry_days * 24 * 3600
    /\ IF req.source_type \in {"azure", "s3"}
       THEN IF missing
            THEN /\ Raise(500, IF req.source_type = "azure" THEN azureMsg ELSE awsMsg)
                 /\ UNCHANGED remaining
            ELSE /\ remaining' = Listing(req.prefix)
                 /\ pc' = "fetch"
                 /\ UNCHANGED <<status, detail, response>>
       ELSE /\ Raise(400, "Invalid source_type")
            /\ UNCHANGED remaining
    /\ UNCHANGED <<env, storage, entry, req, now, page, cur, url, duration,
                   tmp_dirs, calls, prev>>

Setup ==
    /\ pc = "handler"
    /\ entry = "main"
    /\ SetupBody(CredentialsMissing(req.source_type),
                 "Azure credentials not set",
                 "AWS credentials not set. Please define AWS_ACCESS_KEY_ID and AWS_SECRET_ACCESS_KEY.")

\* The listing iterator asks the provider for its next page
FetchPageBody ==
    /\ pc = "fetch"
    /\ \E ok \in BOOLEAN :
         /\ calls' = Append(calls, Call("list", <<>>, ok))
         /\ IF ok
            THEN /\ page' = FirstPage(remaining)
                 /\ remaining' = AfterFirstPage(remaining)
                 /\ pc' = "item"
                 /\ UNCHANGED <<status, detail, response>>
            ELSE /\ Abort
                 /\ UNCHANGED <<page, remaining>>
    /\ UNCHANGED <<env, storage, entry, req, now, expiry, cur, url, duration,
                   tmp_dirs, results, prev>>

FetchPage == entry = "main" /\ FetchPageBody

\* for blob in ... / for obj in page.get("Contents", []): the extension filter
NextItemBody(isAudio) ==
    /\ pc = "item"
    /\ IF page = <<>>
       THEN /\ pc' = IF remaining # <<>> THEN "fetch" ELSE "return"
            /\ UNCHANGED <<page, cur>>
       ELSE /\ cur' = Head(page)
            /\ page' = Tail(page)
            /\ pc' = IF isAudio THEN "sign" ELSE "item"
    /\ UNCHANGED <<env, storage, entry, req, now, expiry, remaining, url,
                   duration, tmp_dirs, results, status, detail, response,
                   calls, prev>>

\* variant of NextItem that probes every listed object
NextItemNoFilter == entry = "main" /\ NextItemBody(TRUE)
NextItem == entry = "main" /\ NextItemBody(IsAudio(Head(page).key))

\* ExpiresIn=req.expiry_days * 24 * 3600
S3ExpiresIn(days) == days * 24 * 3600

\* generate_blob_sas(..., expiry=expiry) / s3.generate_presigned_url(...)
SignBody(expiresIn, next) ==
    /\ pc = "sign"
    /\ \E ok \in BOOLEAN :
         /\ calls' = Append(calls, Call("sign", cur.key, ok))
         /\ IF ok
            THEN /\ url' = [key |-> cur.key,
                            param |-> IF req.source_type = "azure"
                                      THEN expiry
                                      ELSE expiresIn,
                            signed_at |-> now]
                 /\ pc' = next
                 /\ UNCHANGED <<status, detail, response>>
            ELSE /\ Abort
                 /\ UNCHANGED url
    /\ UNCHANGED <<env, storage, entry, req, now, expiry, remaining, page, cur,
                   duration, tmp_dirs, results, prev>>

Sign == entry = "main" /\ SignBody(S3ExpiresIn(req.expiry_days), "download")

\* variant of Download that removes the object it has fetched
DownloadAndDelete ==
    /\ pc = "download"
    /\ entry = "main"
    /\ \E ok \in BOOLEAN :
         /\ calls' = Append(calls, Call("download", cur.key, ok))
         /\ tmp_dirs' = Append(tmp_dirs,
                               [file |-> Basename(cur.key),
                                data |-> IF ok THEN <<cur.content>> ELSE <<>>])
         /\ IF ok
            THEN /\ pc' = "decode"
                 /\ UNCHANGED <<status, detail, response>>
            ELSE Abort
    /\ now' = now + DownloadSecs
    /\ storage' = SelectSeq(storage, LAMBDA o : o.key # cur.key)
    /\ UNCHANGED <<env, entry, req, expiry, remaining, page, cur, url,
                   duration, results, prev>>
\* tmp_dir = tempfile.mkdtemp(); local_path = join(tmp_dir, basename(name));
\* the object's bytes are downloaded to local_path
Download ==
    /\ pc = "download"
    /\ entry = "main"
    /\ \E ok \in BOOLEAN :
         /\ calls' = Append(calls, Call("download", cur.key, ok))
         /\ tmp_dirs' = Append(tmp_dirs,
                               [file |-> Basename(cur.key),
                                data |-> IF ok THEN <<cur.content>> ELSE <<>>])
         /\ IF ok
            THEN /\ pc' = "decode"
                 /\ UNCHANGED <<status, detail, response>>
            ELSE Abort
    /\ now' = now + DownloadSecs
    /\ UNCHANGED <<env, storage, entry, req, expiry, remaining, page, cur, url,
                   duration, results, prev>>

\* variant of Decode without the except clause
DecodeRaises ==
    /\ pc = "decode"
    /\ entry = "main"
    /\ LET data == tmp_dirs[Len(tmp_dirs)].data[1] IN
         /\ calls' = Append(calls, Call("decode", cur.key, data.ok))
         /\ IF data.ok
            THEN /\ duration' = <<data.secs>>
                 /\ pc' = "append"
                 /\ UNCHANGED <<status, detail, response>>
            ELSE /\ Abort
                 /\ UNCHANGED duration
    /\ UNCHANGED <<env, storage, entry, req, now, expiry, remaining, page, cur,
                   url, tmp_dirs, results, prev>>
\* try: duration = AudioSegment.from_file(local_path).duration_seconds
\* except Exception: duration = None
Decode ==
    /\ pc = "decode"
    /\ entry = "main"
    /\ LET data == tmp_dirs[Len(tmp_dirs)].data[1] IN
         /\ calls' = Append(calls, Call("decode", cur.key, data.ok))
         /\ duration' = IF data.ok THEN <<data.secs>> ELSE <<>>
    /\ pc' = "append"
    /\ UNCHANGED <<env, storage, entry, req, now, expiry, remaining, page, cur,
                   url, tmp_dirs, results, status, detail, response, prev>>

\* results.append(FileRecord(file_name=..., path=..., url=..., duration_seconds=...))
AppendRecord ==
    /\ pc = "append"
    /\ entry = "main"
    /\ results' = Append(results,
                         [file_name |-> Basename(cur.key),
                          path |-> cur.key,
                          url |-> url,
                          duration_seconds |-> duration])
    /\ calls' = Append(calls, Call("append", cur.key, TRUE))
    /\ pc' = "item"
    /\ UNCHANGED <<env, storage, entry, req, now, expiry, remaining, page, cur,
                   url, duration, tmp_dirs, status, detail, response, prev>>

\* return results
ReturnBody ==
    /\ pc = "return"
    /\ pc' = "done"
    /\ status' = 200
    /\ response' = <<results>>
    /\ UNCHANGED <<env, storage, entry, req, now, expiry, remaining, page, cur,
                   url, duration, tmp_dirs, results, detail, calls, prev>>

Return == entry = "main" /\ ReturnBody

----------------------------------------------------------------------------
(* app.py *)

AppReceive == Arrive("app")

AppCredentialsMissing(source_type) ==
    IF source_type = "azure"
    THEN "AZURE_STORAGE_CONNECTION_STRING" \notin env \/ "AZURE_ACCOUNT_KEY" \notin env
    ELSE "AWS_ACCESS_KEY_ID" \notin env \/ "AWS_SECRET_ACCESS_KEY" \notin env

AppSetup ==
    /\ pc = "handler"
    /\ entry = "app"
    /\ SetupBody(AppCredentialsMissing(req.source_type),
                 "Azure credentials not set", "AWS credentials not set")

AppFetchPage == entry = "app" /\ FetchPageBody

AppNextItem == entry = "app" /\ NextItemBody(AppIsAudio(Head(page).key))

\* variant of AppS3ExpiresIn that counts an hour per day
AppS3ExpiresInHours(days) == days * 3600
AppS3ExpiresIn(days) == days * 24 * 3600

AppSign == entry = "app" /\ SignBody(AppS3ExpiresIn(req.expiry_days), "append")

\* results.append(FileRecord(path=name, url=url))
AppAppendRecord ==
    /\ pc = "append"
    /\ entry = "app"
    /\ results' = Append(results, [path |-> cur.key, url |-> url])
    /\ calls' = Append(calls, Call("append", cur.key, TRUE))
    /\ pc' = "item"
    /\ UNCHANGED <<env, storage, entry, req, now, expiry, remaining, page, cur,
                   url, duration, tmp_dirs, status, detail, response, prev>>

AppReturn == entry = "app" /\ ReturnBody

----------------------------------------------------------------------------

Next ==
    \/ Receive
    \/ Setup
    \/ FetchPage
    \/ NextItem
    \/ Sign
    \/ Download
    \/ Decode
    \/ AppendRecord
    \/ Return
    \/ AppReceive
    \/ AppSetup
    \/ AppFetchPage
    \/ AppNextItem
    \/ AppSign
    \/ AppAppendRecord
    \/ AppReturn

Spec == Init /\ [][Next]_vars

----------------------------------------------------------------------------
(* What the specification expects, stated without the handlers' operators *)

\* the name's last four characters, case folded, are .wav, .mp3 or .m4a
HasAudioExtension(name) ==
    LET n == Len(name)
        fold(c) == CASE c = "W" -> "w" [] c = "A" -> "a" [] c = "V" -> "v"
                     [] c = "M" -> "m" [] c = "P" -> "p" [] OTHER -> c
    IN  /\ n >= 4
        /\ name[n - 3] = "."
        /\ <<fold(name[n - 2]), fold(name[n - 1]), fold(name[n])>>
             \in { <<"w", "a", "v">>, <<"m", "p", "3">>, <<"m", "4", "a">> }

UnderPrefix(name, p) ==
    /\ Len(name) >= Len(p)
    /\ \A i \in 1..Len(p) : name[i] = p[i]

\* the objects a request is about: under its prefix, with an audio extension
Matched ==
    SelectSeq(storage,
              LAMBDA o : UnderPrefix(o.key, req.prefix) /\ HasAudioExtension(o.key))

RequiredCredentials(source_type) ==
    IF source_type = "azure"
    THEN {"AZURE_STORAGE_CONNECTION_STRING", "AZURE_ACCOUNT_KEY"}
    ELSE {"AWS_ACCESS_KEY_ID", "AWS_SECRET_ACCESS_KEY"}

ProviderOps == {"list", "sign", "download"}

Completed == pc = "done" /\ status = 200
Records == response[1]

\* the calls one probed object takes, in order
RECURSIVE ProbeSchedule(_)
ProbeSchedule(objs) ==
    IF objs = <<>> THEN <<>>
    ELSE << <<"sign", Head(objs).key>>, <<"download", Head(objs).key>>,
            <<"decode", Head(objs).key>>, <<"append", Head(objs).key>> >>
         \o ProbeSchedule(Tail(objs))

ProbeCalls ==
    LET made == SelectSeq(calls, LAMBDA c : c.op # "list")
    IN  [i \in 1..Len(made) |-> <<made[i].op, made[i].key>>]

IsPrefixOf(a, b) == Len(a) <= Len(b) /\ SubSeq(b, 1, Len(a)) = a

----------------------------------------------------------------------------
(* Claims *)

\* C1: when a request of main.py has returned or aborted, no temporary
\* directory made by mkdtemp for one of its objects still exists.
C1_NoTransientLocationLeft ==
    (pc = "done" /\ entry = "main") => tmp_dirs = <<>>

\* C2: a failed decode does not abort the request of main.py: the decode step
\* is always followed by the append step, the appended record has no duration
\* exactly when the object's bytes do not decode, and a completed request
\* returns one record per matched object.
C2_DecodeFailureIsObjectLocal ==
    entry = "main" =>
      /\ (calls # <<>> /\ calls[Len(calls)].op = "decode") =>
            /\ pc = "append"
            /\ duration = IF cur.content.ok THEN <<cur.content.secs>> ELSE <<>>
      /\ Completed =>
            /\ Len(Records) = Len(Matched)
            /\ \A i \in 1..Len(Records) :
                 Records[i].duration_seconds =
                   IF Matched[i].content.ok THEN <<Matched[i].content.secs>> ELSE <<>>

C2_Witness ==
    /\ entry = "main"
    /\ Completed
    /\ \E i, j \in 1..Len(Records) :
         /\ i < j
         /\ Records[i].duration_seconds = <<>>
         /\ Records[j].duration_seconds # <<>>

\* C3: when a credential of the selected backend is missing, main.py answers 500
\* with its configuration message, and no list, sign or download call was made
\* and no temporary directory was created.
C3_MissingCredentialFailsFast ==
    (/\ entry = "main"
     /\ pc \notin {"idle", "handler"}
     /\ req.source_type \in {"azure", "s3"}
     /\ ~(RequiredCredentials(req.source_type) \subseteq env)) =>
        /\ pc = "done"
        /\ status = 500
        /\ detail # "Internal Server Error"
        /\ response = <<>>
        /\ calls = <<>>
        /\ tmp_dirs = <<>>

C3_Witness ==
    /\ entry = "main"
    /\ pc = "done"
    /\ status = 500
    /\ req.source_type = "azure"
    /\ "AZURE_STORAGE_CONNECTION_STRING" \in env
    /\ "AZURE_ACCOUNT_KEY" \notin env
    /\ Matched # <<>>
    /\ calls = <<>>

\* C4: the paths of a completed request of main.py are the names of the objects
\* under the prefix that have an audio extension, each once, in listing order.
C4_PathsAreFilteredListing ==
    (entry = "main" /\ Completed) =>
        /\ Len(Records) = Len(Matched)
        /\ \A i \in 1..Len(Records) : Records[i].path = Matched[i].key

C4_Witness ==
    /\ entry = "main"
    /\ Completed
    /\ req.source_type = "s3"
    /\ req.prefix = <<>>
    /\ Len(storage) = Len(KeyNames)
    /\ Len(Records) = 3

\* C5: every URL of a completed response expires at the arrival of the request
\* plus expiry_days days, within one second.
C5_OneExpiryInstant ==
    (entry = "main" /\ Completed) =>
        \A i \in 1..Len(Records) :
            LET instant == ExpiryInstant(req.source_type, Records[i].url)
                due == req.expiry_days * 86400
            IN  instant - due <= 1 /\ due - instant <= 1

\* C6: a failed list, sign or download call is the last call of the request:
\* the request has ended with status 500 and without a response body.
C6_ProviderFailureAbortsRequest ==
    entry = "main" =>
      \A i \in 1..Len(calls) :
        (calls[i].op \in ProviderOps /\ ~calls[i].ok) =>
            /\ i = Len(calls)
            /\ pc = "done"
            /\ status = 500
            /\ response = <<>>

C6_Witness ==
    /\ entry = "main"
    /\ pc = "done"
    /\ calls # <<>>
    /\ calls[Len(calls)].op = "list"
    /\ ~calls[Len(calls)].ok
    /\ results # <<>>

\* C7: a request with an unrecognised source_type is answered with status 400
\* and no provider call.
C7_UnknownSourceIs400 ==
    (pc = "done" /\ entry = "main" /\ req.source_type \notin {"azure", "s3"}) =>
        (status = 400 /\ calls = <<>>)

\* C8: no step changes the storage, and a request of main.py that completes
\* after an identical completed request returns the same path, file_name and
\* duration_seconds at every position.
SameAsPrevious ==
    (/\ entry = "main"
     /\ Completed
     /\ prev # <<>>
     /\ prev[1].entry = "main"
     /\ prev[1].req = req
     /\ prev[1].status = 200) =>
        LET before == prev[1].response[1] IN
        /\ Len(before) = Len(Records)
        /\ \A i \in 1..Len(Records) :
             /\ before[i].path = Records[i].path
             /\ before[i].file_name = Records[i].file_name
             /\ before[i].duration_seconds = Records[i].duration_seconds

C8_ReadOnlyAndRepeatable ==
    [][storage' = storage /\ SameAsPrevious']_vars

C8_Witness ==
    /\ entry = "main"
    /\ Completed
    /\ prev # <<>>
    /\ prev[1].entry = "main"
    /\ prev[1].status = 200
    /\ Len(Records) >= 2
    /\ \E i \in 1..Len(Records) : Records[i].duration_seconds = <<>>

\* C9: the sign, download, decode and append calls of main.py follow the
\* schedule "for each matched object in listing order: sign, download, decode,
\* append", and a completed request has run the whole schedule.
C9_ProbeOrder ==
    entry = "main" =>
      /\ IsPrefixOf(ProbeCalls, ProbeSchedule(Matched))
      /\ Completed => ProbeCalls = ProbeSchedule(Matched)

C9_Witness ==
    /\ entry = "main"
    /\ Completed
    /\ Len(storage) = Len(KeyNames)
    /\ Len(ProbeCalls) = 12

\* C10: a request served by one module right after the identical request was
\* served by the other, no provider call having failed in either, gets the same
\* status, and on 200 the same number of records with the same path and the
\* same signed object and expiry parameter at every position.
C10_EntryPointsAgree ==
    (/\ pc = "done"
     /\ prev # <<>>
     /\ prev[1].entry # entry
     /\ prev[1].req = req
     /\ detail # "Internal Server Error"
     /\ prev[1].detail # "Internal Server Error") =>
        /\ prev[1].status = status
        /\ status = 200 =>
             LET before == prev[1].response[1] IN
             /\ Len(before) = Len(Records)
             /\ \A i \in 1..Len(Records) :
                  /\ before[i].path = Records[i].path
                  /\ before[i].url.key = Records[i].url.key
                  /\ before[i].url.param = Records[i].url.param

C10_Witness ==
    /\ entry = "main"
    /\ Completed
    /\ prev # <<>>
    /\ prev[1].entry = "app"
    /\ prev[1].status = 200
    /\ req.source_type = "s3"
    /\ Len(Records) >= 2

====
